---------------------------- MODULE Spec2Model ----------------------------
(***************************************************************************)
(* State-vector simulator of ProjectQ (projectq/backends/_sim): the        *)
(* Simulator class of simulator.hpp, its fusion buffer and its kernels.    *)
(*                                                                         *)
(* Representation of the wavefunction.  The C++ amplitudes are complex     *)
(* doubles.  The model keeps real amplitudes exactly: the amplitude at     *)
(* index i is vec_[i+1] / sqrt(den_), with vec_ a sequence of integers and *)
(* den_ a positive integer, reduced to lowest terms (Canon).  A NaN        *)
(* amplitude (0 * inf after a renormalisation by 1/sqrt(0)) is the value   *)
(* NaN.  Index i of the C++ vector is position i+1 of the sequence.        *)
(***************************************************************************)
EXTENDS Integers, Sequences, FiniteSets, TLC

VARIABLES
    N_,            \* unsigned N_: number of qubits
    vec_,          \* StateVector vec_: numerators of the amplitudes
    den_,          \* StateVector vec_: common squared denominator
    map_,          \* Map map_: qubit id -> bit position
    fused_gates_,  \* fusion::Fusion fused_gates_: pending gates, in order
    op,            \* name of the last frontend call
    args,          \* its arguments
    err,           \* "" when it returned, else the error it threw
    ret,           \* its return value, as a sequence of integers
    ub,            \* TRUE once a call has executed undefined behaviour
    direct,        \* reference wavefunction: every gate applied on submission
    npending,      \* number of gates pending when the last call was made
    flushed        \* the flushes apply_controlled_gate has triggered so far

vars == <<N_, vec_, den_, map_, fused_gates_, op, args, err, ret, ub, direct,
          npending, flushed>>

---------------------------------------------------------------------------
(* Bounds of the model *)

MaxId == 2          \* qubit ids are 0..MaxId
MaxQubits == 2      \* allocate_qubit is not called beyond this many qubits
MaxDen == 4         \* gates are not submitted once den_ would exceed this
MaxAmp == 2         \* apply_qubit_operator is not called beyond this numerator
MaxPending == 1     \* gates are not submitted beyond this many pending gates
MaxIdsLen == 2      \* longest id list passed to a query
FusionQubits == 6   \* qubits of the circuits that exercise the fusion buffer
MaxFused == 2       \* those circuits submit no gate beyond this many pending
MathQubits == 3     \* qubits of the register arithmetic runs

QubitIds == 0..MaxId

\* The ids passed to allocate_qubit; the ids above stay unknown.
AllocIds == 0..(MaxQubits - 1)

---------------------------------------------------------------------------
(* Bit arithmetic on std::size_t values.  A wrapped value 2^64 - 1 is kept *)
(* as -1: floor division and a non-negative remainder give it every bit    *)
(* set, as in two's complement.                                            *)

Pow2(n) == 2 ^ n

Bit(i, p) == (i \div Pow2(p)) % 2

RECURSIVE And(_, _)
And(a, b) ==
    IF a = 0 \/ b = 0 THEN 0
    ELSE IF a = -1 THEN b
    ELSE (a % 2) * (b % 2) + 2 * And(a \div 2, b \div 2)

OrBit(m, p) == IF Bit(m, p) = 1 THEN m ELSE m + Pow2(p)

XorBit(m, p) == IF Bit(m, p) = 1 THEN m - Pow2(p) ELSE m + Pow2(p)

Range(f) == {f[x] : x \in DOMAIN f}

RECURSIVE SumSeq(_)
SumSeq(s) == IF s = <<>> THEN 0 ELSE Head(s) + SumSeq(Tail(s))

---------------------------------------------------------------------------
(* Amplitudes *)

NaN == 0 - 1000000

IsNaN(a) == a = NaN

\* std::norm(a) > tol, tol = default_tol_ = 1e-12.  The squared magnitude is
\* a*a/den_ and den_ stays far below 10^12, so the test is a # 0; a NaN
\* compares false.
AboveTol(a) == ~IsNaN(a) /\ a # 0

HasNaN(v) == \E k \in DOMAIN v : IsNaN(v[k])

Abs(x) == IF x < 0 THEN 0 - x ELSE x

\* vec / sqrt(den) in lowest terms: the largest g dividing every numerator
\* with g*g dividing den is divided out.
Canon(v, d) ==
    LET nums == {Abs(v[k]) : k \in {j \in DOMAIN v : ~IsNaN(v[j])}} \ {0}
        top == IF nums = {} THEN 1
               ELSE CHOOSE m \in nums : \A n \in nums : m <= n
        gs == {g \in 1..top : /\ d % (g * g) = 0
                              /\ \A n \in nums : n % g = 0}
        g == CHOOSE x \in gs : \A y \in gs : y <= x
    IN  IF nums = {} THEN [vec |-> v, den |-> 1]
        ELSE [vec |-> [k \in DOMAIN v |-> IF IsNaN(v[k]) THEN NaN ELSE v[k] \div g],
              den |-> d \div (g * g)]

\* Sum of the squared numerators of the amplitudes at the indices in I.
RECURSIVE Norm2Upto(_, _, _)
Norm2Upto(v, I, n) ==
    IF n = 0 THEN 0
    ELSE Norm2Upto(v, I, n - 1) + (IF (n - 1) \in I THEN v[n] * v[n] ELSE 0)

Norm2(v, I) == Norm2Upto(v, I, Len(v))

Indices(v) == 0..(Len(v) - 1)

\* The amplitudes are numbers and their squared magnitudes sum to 1.
Normalised(v, d) == ~HasNaN(v) /\ Norm2(v, Indices(v)) = d

---------------------------------------------------------------------------
(* Gate matrices.  A matrix is named; Matrix gives its integer rows (row    *)
(* major) and Scale the squared factor it is divided by (H is the rows     *)
(* below over sqrt(2)).                                                    *)

X == <<<<0, 1>>, <<1, 0>>>>
Z == <<<<1, 0>>, <<0, -1>>>>
H == <<<<1, 1>>, <<1, -1>>>>
SWAP == <<<<1, 0, 0, 0>>, <<0, 0, 1, 0>>, <<0, 1, 0, 0>>, <<0, 0, 0, 1>>>>

\* Three targets: the register value c goes to c + 1 mod 8.
ROT3 == [r \in 1..8 |-> [c \in 1..8 |-> IF r - 1 = c % 8 THEN 1 ELSE 0]]

\* Four targets: the register value c goes to c + 1 mod 16.
ROT4 == [r \in 1..16 |-> [c \in 1..16 |-> IF r - 1 = c % 16 THEN 1 ELSE 0]]

Matrix(m) ==
    CASE m = "X" -> X
      [] m = "Z" -> Z
      [] m = "H" -> H
      [] m = "SWAP" -> SWAP
      [] m = "ROT3" -> ROT3
      [] m = "ROT4" -> ROT4

Scale(m) == IF m = "H" THEN 2 ELSE 1

Targets(m) ==
    IF m = "SWAP" THEN 2 ELSE IF m = "ROT3" THEN 3 ELSE IF m = "ROT4" THEN 4 ELSE 1

---------------------------------------------------------------------------
(* Numeric kernels *)

\* kernel1::core: the 2x2 matrix m applied to the pair (psi[I], psi[I + d0]).
\* A NaN operand makes both results NaN.
Kernel1Core(psi, I, d0, m) ==
    LET v0 == psi[I + 1]
        v1 == psi[I + d0 + 1]
        bad == IsNaN(v0) \/ IsNaN(v1)
    IN  [psi EXCEPT ![I + 1] = IF bad THEN NaN ELSE v0 * m[1][1] + v1 * m[1][2],
                    ![I + d0 + 1] = IF bad THEN NaN ELSE v0 * m[2][1] + v1 * m[2][2]]

\* The dispatcher for one target bit: kernel1::core on every index I whose
\* target bit is clear and whose control bits are all set.
RECURSIVE Dispatch1(_, _, _, _, _)
Dispatch1(psi, m, ctrlmask, p, I) ==
    IF I >= Len(psi) THEN psi
    ELSE IF Bit(I, p) = 0 /\ And(I, ctrlmask) = ctrlmask
         THEN Dispatch1(Kernel1Core(psi, I, Pow2(p), m), m, ctrlmask, p, I + 1)
         ELSE Dispatch1(psi, m, ctrlmask, p, I + 1)

\* Index of i within its coset: bit j-1 of the result is bit pos[j] of i.
RECURSIVE Loc(_, _)
Loc(i, pos) ==
    IF pos = <<>> THEN 0 ELSE Bit(i, Head(pos)) + 2 * Loc(i, Tail(pos))

\* i with its target bits replaced by the bits of c.
RECURSIVE WithLoc(_, _, _)
WithLoc(i, pos, c) ==
    IF pos = <<>> THEN i
    ELSE LET p == Head(pos)
             j == IF Bit(i, p) = c % 2 THEN i ELSE XorBit(i, p)
         IN  WithLoc(j, Tail(pos), c \div 2)

\* The k-target kernel: gather the 2^k amplitudes of the coset of i, multiply
\* by m, scatter; indices outside the control coset are unchanged.
KernelK(psi, m, ctrlmask, pos) ==
    LET k == Len(pos)
        cols == 0..(Pow2(k) - 1)
        gather(i) == [c \in cols |-> psi[WithLoc(i, pos, c) + 1]]
        row(i) == m[Loc(i, pos) + 1]
        out(i) ==
            LET v == gather(i)
            IN  IF \E c \in cols : IsNaN(v[c]) THEN NaN
                ELSE SumSeq([c \in 1..Pow2(k) |-> row(i)[c] * v[c - 1]])
    IN  [n \in 1..Len(psi) |->
            IF And(n - 1, ctrlmask) = ctrlmask THEN out(n - 1) ELSE psi[n]]

\* details::kernel: the kernel for the number of target bits.
Kernel(psi, m, ctrlmask, pos) ==
    IF Len(pos) = 1 THEN Dispatch1(psi, m, ctrlmask, pos[1], 0)
    ELSE KernelK(psi, m, ctrlmask, pos)

---------------------------------------------------------------------------
(* The simulator's fields as one record, and the result of a call *)

St == [N |-> N_, vec |-> vec_, den |-> den_, map |-> map_, F |-> fused_gates_]

Ret(s, e, r) == [st |-> s, err |-> e, ret |-> r, ub |-> FALSE]

Undefined(s) == [st |-> s, err |-> "", ret |-> <<>>, ub |-> TRUE]

\* map_[id] of std::map: an absent key is inserted with value 0.
MapAt(map, id) ==
    IF id \in DOMAIN map THEN map
    ELSE [x \in DOMAIN map \cup {id} |-> IF x = id THEN 0 ELSE map[x]]

RECURSIVE MapAtAll(_, _)
MapAtAll(map, ids) ==
    IF ids = <<>> THEN map ELSE MapAtAll(MapAt(map, Head(ids)), Tail(ids))

\* Simulator::get_control_mask, on a map that holds every id of ctrls.
RECURSIVE get_control_mask(_, _)
get_control_mask(map, ctrls) ==
    IF ctrls = <<>> THEN 0
    ELSE OrBit(get_control_mask(map, Tail(ctrls)), map[Head(ctrls)])

\* Simulator::check_ids
check_ids(map, ids) == \A k \in DOMAIN ids : ids[k] \in DOMAIN map

---------------------------------------------------------------------------
(* Fusion buffer: the pending (matrix, target ids, control ids) triples *)

fusion_qubits_min_ == 4
fusion_qubits_max_ == 5

EmptyFusion == <<>>

FusionInsert(F, g) == Append(F, g)

FusionNumQubits(F) == Cardinality(UNION {Range(F[k].ids) : k \in DOMAIN F})

\* One pending gate applied to W: positions and control mask from M.
ApplyGate(vec, den, map, g) ==
    LET pos == [j \in DOMAIN g.ids |-> map[g.ids[j]]]
    IN  [vec |-> Kernel(vec, Matrix(g.m), get_control_mask(map, g.ctrl), pos),
         den |-> den * Scale(g.m)]

RECURSIVE ApplyGates(_, _, _, _)
ApplyGates(vec, den, map, gs) ==
    IF gs = <<>> THEN [vec |-> vec, den |-> den]
    ELSE LET rest(w) == ApplyGates(w.vec, w.den, map, Tail(gs))
         IN  rest(ApplyGate(vec, den, map, Head(gs)))

\* Simulator::run: the pending gates applied in insertion order, F cleared.
run(s) ==
    LET flushed_to(w) == [s EXCEPT !.vec = w.vec, !.den = w.den, !.F = EmptyFusion]
        canonical(w) == flushed_to(Canon(w.vec, w.den))
    IN  canonical(ApplyGates(s.vec, s.den, s.map, s.F))

\* The fields after map_[id], and after map_[id] for every id of a list.
WithKey(s, id) == [s EXCEPT !.map = MapAt(s.map, id)]

WithKeys(s, ids) == [s EXCEPT !.map = MapAtAll(s.map, ids)]

---------------------------------------------------------------------------
(* Frontend operations, as functions from the fields to the call's result. *)
(* In each, s stands for the fields once the operation has flushed (and,   *)
(* where it reads map_[id] unchecked, once the ids are keys of map_).       *)

\* Faulty variant of allocate_qubit: the vector is not resized.
allocate_qubit_short(s, id) ==
    IF id \notin DOMAIN s.map
    THEN Ret([s EXCEPT !.map = [x \in DOMAIN s.map \cup {id} |->
                                   IF x = id THEN s.N ELSE s.map[x]],
                      !.N = s.N + 1], "", <<>>)
    ELSE Ret(s, "AllocationConflict", <<>>)

\* Simulator::allocate_qubit
allocate_qubit(s, id) ==
    IF id \notin DOMAIN s.map
    THEN LET n == s.N + 1
         IN  Ret([s EXCEPT !.map = [x \in DOMAIN s.map \cup {id} |->
                                        IF x = id THEN s.N ELSE s.map[x]],
                           !.N = n,
                           !.vec = [i \in 1..Pow2(n) |->
                                        IF i <= Len(s.vec) THEN s.vec[i] ELSE 0]],
                 "", <<>>)
    ELSE Ret(s, "AllocationConflict", <<>>)

\* Faulty variant of apply_controlled_gate: the gate is inserted alone
\* without the pending gates being flushed first.
apply_controlled_gate_dropping(s, g) ==
    LET fused_gates == FusionInsert(s.F, g)
        nq == FusionNumQubits(fused_gates)
    IN  IF nq >= fusion_qubits_min_ /\ nq <= fusion_qubits_max_
        THEN run([s EXCEPT !.F = fused_gates])
        ELSE IF \/ nq > fusion_qubits_max_
                \/ nq < Len(g.ids)
                \/ nq - Len(g.ids) > FusionNumQubits(s.F)
        THEN [s EXCEPT !.F = FusionInsert(EmptyFusion, g)]
        ELSE [s EXCEPT !.F = fused_gates]

\* Faulty variant of apply_controlled_gate: the pending gates are flushed
\* and the gate inserted alone whenever the insertion adds more target
\* qubits than the buffer held.
apply_controlled_gate_eager(s, g) ==
    LET fused_gates == FusionInsert(s.F, g)
        nq == FusionNumQubits(fused_gates)
    IN  IF nq >= fusion_qubits_min_ /\ nq <= fusion_qubits_max_
        THEN run([s EXCEPT !.F = fused_gates])
        ELSE IF \/ nq > fusion_qubits_max_
                \/ nq - FusionNumQubits(s.F) > FusionNumQubits(s.F)
        THEN [run(s) EXCEPT !.F = FusionInsert(EmptyFusion, g)]
        ELSE [s EXCEPT !.F = fused_gates]

\* Faulty variant of apply_controlled_gate: a composite above max is
\* committed instead of the pending gates being flushed.
apply_controlled_gate_unbounded(s, g) ==
    LET fused_gates == FusionInsert(s.F, g)
        nq == FusionNumQubits(fused_gates)
    IN  IF nq >= fusion_qubits_min_ /\ nq <= fusion_qubits_max_
        THEN run([s EXCEPT !.F = fused_gates])
        ELSE [s EXCEPT !.F = fused_gates]

\* Simulator::apply_controlled_gate.  The unsigned difference
\* fused_gates.num_qubits() - ids.size() wraps to a huge value when negative.
apply_controlled_gate(s, g) ==
    LET fused_gates == FusionInsert(s.F, g)
        nq == FusionNumQubits(fused_gates)
    IN  IF nq >= fusion_qubits_min_ /\ nq <= fusion_qubits_max_
        THEN run([s EXCEPT !.F = fused_gates])
        ELSE IF \/ nq > fusion_qubits_max_
                \/ nq < Len(g.ids)
                \/ nq - Len(g.ids) > FusionNumQubits(s.F)
        THEN [run(s) EXCEPT !.F = FusionInsert(EmptyFusion, g)]
        ELSE [s EXCEPT !.F = fused_gates]

\* The branch apply_controlled_gate takes: "fused" (commit and flush),
\* "alone" (flush, then insert the gate alone) or "none" (commit only).
FlushKind(s, g) ==
    LET fused_gates == FusionInsert(s.F, g)
        nq == FusionNumQubits(fused_gates)
    IN  IF nq >= fusion_qubits_min_ /\ nq <= fusion_qubits_max_ THEN "fused"
        ELSE IF \/ nq > fusion_qubits_max_
                \/ nq < Len(g.ids)
                \/ nq - Len(g.ids) > FusionNumQubits(s.F)
        THEN "alone"
        ELSE "none"

\* The indices of W whose bit pos is b.
Half(vec, pos, b) == {i \in Indices(vec) : Bit(i, pos) = b}

\* Faulty variant of is_classical: mass on either half counts as classical.
is_classical_any(s0, id) ==
    LET flushed_at(s) ==
            LET pos == s.map[id]
                up == \E i \in Half(s.vec, pos, 0) : AboveTol(s.vec[i + 1])
                down == \E i \in Half(s.vec, pos, 1) : AboveTol(s.vec[i + 1])
            IN  IF pos >= s.N THEN Undefined(s)
                ELSE Ret(s, "", <<IF up \/ down THEN 1 ELSE 0>>)
    IN  flushed_at(WithKey(run(s0), id))

\* Simulator::is_classical.  A position outside W (only a corrupted map_
\* holds one) makes the loop read past the end of vec_.
is_classical(s0, id) ==
    LET flushed_at(s) ==
            LET pos == s.map[id]
                up == \E i \in Half(s.vec, pos, 0) : AboveTol(s.vec[i + 1])
                down == \E i \in Half(s.vec, pos, 1) : AboveTol(s.vec[i + 1])
            IN  IF pos >= s.N THEN Undefined(s)
                ELSE Ret(s, "", <<IF up # down THEN 1 ELSE 0>>)
    IN  flushed_at(WithKey(run(s0), id))

\* Simulator::get_classical_value.  The scan visits the pairs (i+j, i+j+delta)
\* in increasing i+j and returns at the first amplitude above tol, the low
\* one tested first.
get_classical_value(s0, id) ==
    LET flushed_at(s) ==
            LET pos == s.map[id]
                hit == {i \in Half(s.vec, pos, 0) :
                            AboveTol(s.vec[i + 1]) \/ AboveTol(s.vec[i + Pow2(pos) + 1])}
                first == CHOOSE i \in hit : \A k \in hit : i <= k
            IN  IF pos >= s.N
                THEN IF AboveTol(s.vec[1]) THEN Ret(s, "", <<0>>) ELSE Undefined(s)
                ELSE IF hit = {} THEN Ret(s, "InternalInconsistency", <<>>)
                ELSE Ret(s, "", <<IF AboveTol(s.vec[first + 1]) THEN 0 ELSE 1>>)
    IN  flushed_at(WithKey(run(s0), id))

\* The index of the old vector that entry k of the shrunk vector is copied
\* from: bit value inserted at position pos.
Expand(k, pos, value) ==
    (k \div Pow2(pos)) * Pow2(pos + 1) + value * Pow2(pos) + (k % Pow2(pos))

\* Faulty variant of collapse_vector: the positions above the removed one
\* are not decremented.
collapse_vector_gap(s0, id, value, shrink) ==
    LET flushed_at(s) ==
            LET pos == s.map[id]
                zeroed == [n \in 1..Len(s.vec) |->
                              IF Bit(n - 1, pos) # value THEN 0 ELSE s.vec[n]]
                newvec == [n \in 1..Pow2(s.N - 1) |->
                              s.vec[Expand(n - 1, pos, value) + 1]]
                newmap == [x \in DOMAIN s.map \ {id} |-> s.map[x]]
            IN  IF ~shrink
                THEN IF pos < s.N THEN Ret([s EXCEPT !.vec = zeroed], "", <<>>)
                     ELSE IF pos = s.N /\ value = 1
                          THEN Ret([s EXCEPT !.vec = [n \in 1..Len(s.vec) |-> 0]],
                                   "", <<>>)
                          ELSE Undefined(s)
                ELSE IF s.N = 0 \/ pos >= s.N THEN Undefined(s)
                     ELSE Ret([s EXCEPT !.vec = newvec, !.map = newmap, !.N = s.N - 1],
                              "", <<>>)
    IN  flushed_at(WithKey(run(s0), id))

\* Simulator::collapse_vector (value is 0 or 1).
collapse_vector(s0, id, value, shrink) ==
    LET flushed_at(s) ==
            LET pos == s.map[id]
                zeroed == [n \in 1..Len(s.vec) |->
                              IF Bit(n - 1, pos) # value THEN 0 ELSE s.vec[n]]
                newvec == [n \in 1..Pow2(s.N - 1) |->
                              s.vec[Expand(n - 1, pos, value) + 1]]
                newmap == [x \in DOMAIN s.map \ {id} |->
                              IF s.map[x] > pos THEN s.map[x] - 1 ELSE s.map[x]]
            IN  IF ~shrink
                THEN IF pos < s.N THEN Ret([s EXCEPT !.vec = zeroed], "", <<>>)
                     ELSE IF pos = s.N /\ value = 1
                          THEN Ret([s EXCEPT !.vec = [n \in 1..Len(s.vec) |-> 0]],
                                   "", <<>>)
                          ELSE Undefined(s)
                ELSE IF s.N = 0 \/ pos >= s.N THEN Undefined(s)
                     ELSE Ret([s EXCEPT !.vec = newvec, !.map = newmap, !.N = s.N - 1],
                              "", <<>>)
    IN  flushed_at(WithKey(run(s0), id))

\* The cumulative scan of measure_qubits: P and pick when the loop ends.
\* rnd is k / (2 den_), so P < rnd is 2 c < k for P = c / den_; a NaN
\* amplitude makes P NaN, which ends the loop.
RECURSIVE Scan(_, _, _, _, _)
Scan(vec, k, c, nan, pick) ==
    IF ~nan /\ 2 * c < k /\ pick < Len(vec)
    THEN LET a == vec[pick + 1]
         IN  IF IsNaN(a) THEN Scan(vec, k, c, TRUE, pick + 1)
             ELSE Scan(vec, k, c + a * a, FALSE, pick + 1)
    ELSE pick

\* mask and val of an id list and its bits: OR of (1 << pos), OR of (bit << pos).
RECURSIVE MaskOf(_)
MaskOf(positions) ==
    IF positions = <<>> THEN 0 ELSE OrBit(MaskOf(Tail(positions)), Head(positions))

RECURSIVE ValOf(_, _)
ValOf(positions, bits) ==
    IF positions = <<>> THEN 0
    ELSE IF Head(bits) = 1
         THEN OrBit(ValOf(Tail(positions), Tail(bits)), Head(positions))
         ELSE ValOf(Tail(positions), Tail(bits))

\* The amplitudes matching (mask, val) kept and divided by the square root
\* of their norm, the others zeroed.  A zero norm gives 0 * inf, a NaN norm
\* gives NaN: every amplitude multiplied by the factor is then NaN.
Renormalised(vec, mask, val) ==
    LET keep == {i \in Indices(vec) : And(i, mask) = val}
        nan == \E i \in keep : IsNaN(vec[i + 1])
        K == IF nan THEN 0 ELSE Norm2(vec, keep)
    IN  [vec |-> [n \in 1..Len(vec) |->
                     IF (n - 1) \in keep THEN vec[n] ELSE 0],
         K |-> K, nan |-> nan]

\* Simulator::measure_qubits with the random draw rnd = k / (2 den_).
measure_qubits(s0, ids, k) ==
    LET flushed_at(s) ==
            LET positions == [i \in DOMAIN ids |-> s.map[ids[i]]]
                pick == Scan(s.vec, k, 0, FALSE, 0) - 1
                res == [i \in DOMAIN ids |-> Bit(pick, positions[i])]
                r == Renormalised(s.vec, MaskOf(positions), ValOf(positions, res))
            IN  IF r.nan \/ r.K = 0
                THEN Ret([s EXCEPT !.vec = [n \in 1..Len(s.vec) |-> NaN], !.den = 1],
                         "", res)
                ELSE Ret([s EXCEPT !.vec = r.vec, !.den = r.K], "", res)
    IN  flushed_at(WithKeys(run(s0), ids))

\* Simulator::deallocate_qubit.  is_classical and get_classical_value are
\* reached with id a key of map_ and nothing pending: they leave the fields
\* as the flush left them.
deallocate_qubit(s0, id) ==
    LET flushed_at(s) ==
            LET c == is_classical(s, id)
                v == get_classical_value(s, id)
            IN  IF id \notin DOMAIN s.map THEN Ret(s, "UnknownQubit", <<>>)
                ELSE IF c.ub THEN c
                ELSE IF c.ret # <<1>> THEN Ret(s, "NonClassicalDeallocation", <<>>)
                ELSE IF v.ub \/ v.err # "" THEN v
                ELSE collapse_vector(s, id, v.ret[1], TRUE)
    IN  flushed_at(run(s0))

\* Faulty variant of get_probability: the ids are validated before the
\* flush, so a failing call leaves the gates pending.
get_probability_unflushed(s0, bit_string, ids) ==
    LET flushed_at(s) ==
            LET positions == [i \in DOMAIN ids |-> s.map[ids[i]]]
                mask == MaskOf(positions)
                bit_str == ValOf(positions, bit_string)
                hit == {i \in Indices(s.vec) : And(i, mask) = bit_str}
            IN  IF ~check_ids(s0.map, ids) THEN Ret(s0, "UnknownQubit", <<>>)
                ELSE IF \E i \in hit : IsNaN(s.vec[i + 1])
                THEN Ret(s, "", <<NaN, s.den>>)
                ELSE Ret(s, "", <<Norm2(s.vec, hit), s.den>>)
    IN  flushed_at(run(s0))

\* Faulty variant of get_probability: only the bits asked to be 1 are
\* compared, the mask is ignored.
get_probability_unmasked(s0, bit_string, ids) ==
    LET flushed_at(s) ==
            LET positions == [i \in DOMAIN ids |-> s.map[ids[i]]]
                bit_str == ValOf(positions, bit_string)
                hit == {i \in Indices(s.vec) : And(i, bit_str) = bit_str}
            IN  IF ~check_ids(s.map, ids) THEN Ret(s, "UnknownQubit", <<>>)
                ELSE IF \E i \in hit : IsNaN(s.vec[i + 1])
                THEN Ret(s, "", <<NaN, s.den>>)
                ELSE Ret(s, "", <<Norm2(s.vec, hit), s.den>>)
    IN  flushed_at(run(s0))

\* Simulator::get_probability; the result is ret[1] / ret[2].
get_probability(s0, bit_string, ids) ==
    LET flushed_at(s) ==
            LET positions == [i \in DOMAIN ids |-> s.map[ids[i]]]
                mask == MaskOf(positions)
                bit_str == ValOf(positions, bit_string)
                hit == {i \in Indices(s.vec) : And(i, mask) = bit_str}
            IN  IF ~check_ids(s.map, ids) THEN Ret(s, "UnknownQubit", <<>>)
                ELSE IF \E i \in hit : IsNaN(s.vec[i + 1])
                THEN Ret(s, "", <<NaN, s.den>>)
                ELSE Ret(s, "", <<Norm2(s.vec, hit), s.den>>)
    IN  flushed_at(run(s0))

\* The ids of get_amplitude's loop up to (not including) the first unknown id.
RECURSIVE KnownPrefix(_, _)
KnownPrefix(map, ids) ==
    IF ids = <<>> \/ Head(ids) \notin DOMAIN map THEN <<>>
    ELSE <<Head(ids)>> \o KnownPrefix(map, Tail(ids))

\* Simulator::get_amplitude; the result is ret[1] / sqrt(ret[2]).
get_amplitude(s0, bit_string, ids) ==
    LET flushed_at(s) ==
            LET known == KnownPrefix(s.map, ids)
                positions == [i \in DOMAIN known |-> s.map[known[i]]]
                chk == MaskOf(positions)
                index == ValOf(positions, SubSeq(bit_string, 1, Len(known)))
            IN  IF chk + 1 # Len(s.vec) THEN Ret(s, "IncompleteAmplitudeQuery", <<>>)
                ELSE Ret(s, "", <<s.vec[index + 1], s.den>>)
    IN  flushed_at(run(s0))

\* map_[ordering[i]] = i for i = 0, 1, ...
RECURSIVE Reorder(_, _, _)
Reorder(map, ordering, i) ==
    IF ordering = <<>> THEN map
    ELSE Reorder([map EXCEPT ![Head(ordering)] = i], Tail(ordering), i + 1)

\* Simulator::set_wavefunction; the wavefunction is a record of numerators
\* and squared denominator.  vec_ is not resized: a wavefunction longer
\* than vec_ is written past its end.
set_wavefunction(s0, wavefunction, ordering) ==
    LET flushed_at(s) ==
            IF Len(wavefunction.vec) # Pow2(Len(ordering))
            THEN Ret(s, "InvalidOrdering", <<>>)
            ELSE IF \/ Cardinality(DOMAIN s.map) # Len(ordering)
                    \/ ~check_ids(s.map, ordering)
            THEN Ret(s, "InvalidOrdering", <<>>)
            ELSE IF Len(wavefunction.vec) > Len(s.vec) THEN Undefined(s)
            ELSE Ret([s EXCEPT !.map = Reorder(s.map, ordering, 0),
                               !.vec = wavefunction.vec,
                               !.den = wavefunction.den], "", <<>>)
    IN  flushed_at(run(s0))

\* Simulator::collapse_wavefunction
collapse_wavefunction(s0, ids, values) ==
    LET flushed_at(s) ==
            LET positions == [i \in DOMAIN ids |-> s.map[ids[i]]]
                r == Renormalised(s.vec, MaskOf(positions), ValOf(positions, values))
            IN  IF Len(ids) # Len(values) THEN Ret(s, "ShapeMismatch", <<>>)
                ELSE IF ~check_ids(s.map, ids) THEN Ret(s, "UnknownQubit", <<>>)
                ELSE IF ~r.nan /\ r.K = 0 THEN Ret(s, "DegenerateCollapse", <<>>)
                ELSE IF r.nan
                THEN Ret([s EXCEPT !.vec = [n \in 1..Len(s.vec) |->
                                               IF And(n - 1, MaskOf(positions))
                                                    = ValOf(positions, values)
                                               THEN NaN ELSE 0]], "", <<>>)
                ELSE Ret([s EXCEPT !.vec = r.vec, !.den = r.K], "", <<>>)
    IN  flushed_at(run(s0))

\* Faulty variant of cheat: the pending gates are not flushed.
cheat_unflushed(s0) == Ret(s0, "", <<>>)

\* Simulator::cheat
cheat(s0) == Ret(run(s0), "", <<>>)


---------------------------------------------------------------------------
(* emulate_math *)

\* The lambdas of emulate_math_addConstant, emulate_math_addConstantModN and
\* emulate_math_multiplyByConstantModN, applied to one register value.
ApplyF(f, x) ==
    CASE f.kind = "add" -> x + f.a
      [] f.kind = "addmod" -> (x + f.a) % f.N
      [] f.kind = "mulmod" -> (x * f.a) % f.N

\* res[qr_i]: the value of a register (its bit positions, low bit first) at i.
RECURSIVE RegValue(_, _)
RegValue(i, reg) ==
    IF reg = <<>> THEN 0 ELSE Bit(i, Head(reg)) + 2 * RegValue(i, Tail(reg))

\* new_i with the bits of one register set to those of x.
RECURSIVE RegStore(_, _, _)
RegStore(i, reg, x) ==
    IF reg = <<>> THEN i
    ELSE LET p == Head(reg)
             j == IF Bit(i, p) = x % 2 THEN i ELSE XorBit(i, p)
         IN  RegStore(j, Tail(reg), x \div 2)

\* new_i of index i: every register read from i, then stored in turn.
RECURSIVE RegsStore(_, _, _, _)
RegsStore(new_i, i, regs, f) ==
    IF regs = <<>> THEN new_i
    ELSE RegsStore(RegStore(new_i, Head(regs), ApplyF(f, RegValue(i, Head(regs)))),
                   i, Tail(regs), f)

\* quregs[i][j] = map_[quregs[i][j]] for every register in turn.
RECURSIVE MapAtRegs(_, _)
MapAtRegs(map, regs) ==
    IF regs = <<>> THEN map ELSE MapAtRegs(MapAtAll(map, Head(regs)), Tail(regs))

WithRegs(s, quregs) == [s EXCEPT !.map = MapAtRegs(s.map, quregs)]

\* Faulty variant of emulate_math: the control mask is ignored.
emulate_math_uncontrolled(s0, f, quregs, ctrl) ==
    LET flushed_at(s) ==
            LET regs == [r \in DOMAIN quregs |->
                            [b \in DOMAIN quregs[r] |-> s.map[quregs[r][b]]]]
                target(i) == RegsStore(i, i, regs, f)
                from(t) == {i \in Indices(s.vec) : target(i) = t}
                newvec == [n \in 1..Len(s.vec) |->
                              IF \E i \in from(n - 1) : IsNaN(s.vec[i + 1]) THEN NaN
                              ELSE SumSeq([k \in 1..Len(s.vec) |->
                                              IF (k - 1) \in from(n - 1)
                                              THEN s.vec[k] ELSE 0])]
            IN  IF \E i \in Indices(s.vec) : target(i) >= Len(s.vec) THEN Undefined(s)
                ELSE Ret([s EXCEPT !.vec = newvec], "", <<>>)
    IN  flushed_at(WithRegs(WithKeys(run(s0), ctrl), quregs))

\* Simulator::emulate_math.  The control ids become keys of map_ first, then
\* the register ids.
emulate_math(s0, f, quregs, ctrl) ==
    LET flushed_at(s) ==
            LET ctrlmask == get_control_mask(s.map, ctrl)
                regs == [r \in DOMAIN quregs |->
                            [b \in DOMAIN quregs[r] |-> s.map[quregs[r][b]]]]
                target(i) == IF And(ctrlmask, i) = ctrlmask
                             THEN RegsStore(i, i, regs, f) ELSE i
                from(t) == {i \in Indices(s.vec) : target(i) = t}
                newvec == [n \in 1..Len(s.vec) |->
                              IF \E i \in from(n - 1) : IsNaN(s.vec[i + 1]) THEN NaN
                              ELSE SumSeq([k \in 1..Len(s.vec) |->
                                              IF (k - 1) \in from(n - 1)
                                              THEN s.vec[k] ELSE 0])]
            IN  IF \E i \in Indices(s.vec) : target(i) >= Len(s.vec) THEN Undefined(s)
                ELSE Ret([s EXCEPT !.vec = newvec], "", <<>>)
    IN  flushed_at(WithRegs(WithKeys(run(s0), ctrl), quregs))

---------------------------------------------------------------------------
(* Pauli terms: get_expectation_value, apply_qubit_operator,                *)
(* emulate_time_evolution.  A term is a sequence of <<local index, op>>     *)
(* with op "X" or "Z" (Y has imaginary entries and is left out of the      *)
(* inputs); a sum is a sequence of <<term, coefficient>>.                  *)

RECURSIVE TermGates(_, _, _, _)
TermGates(s, term, ids, ctrl) ==
    IF term = <<>> THEN s
    ELSE TermGates(apply_controlled_gate(s, [m |-> Head(term)[2],
                                             ids |-> <<ids[Head(term)[1] + 1]>>,
                                             ctrl |-> ctrl]),
                   Tail(term), ids, ctrl)

\* Simulator::apply_term
apply_term(s, term, ids, ctrl) == run(TermGates(s, term, ids, ctrl))

\* acc + coefficient * v, entry by entry.
AddScaled(acc, coefficient, v) ==
    [n \in DOMAIN acc |-> IF IsNaN(acc[n]) \/ IsNaN(v[n]) THEN NaN
                          ELSE acc[n] + coefficient * v[n]]

\* The sum over the terms of coefficient * (term applied to vec_).
RECURSIVE TermsSum(_, _, _, _)
TermsSum(s, td, ids, acc) ==
    IF td = <<>> THEN acc
    ELSE TermsSum(s, Tail(td), ids,
                  AddScaled(acc, Head(td)[2], apply_term(s, Head(td)[1], ids, <<>>).vec))

Zeros(n) == [k \in 1..n |-> 0]

\* Simulator::get_expectation_value; the result is ret[1] / ret[2].
get_expectation_value(s0, td, ids) ==
    LET flushed_at(s) ==
            LET summed(hw) ==
                    IF HasNaN(hw) \/ (td # <<>> /\ HasNaN(s.vec))
                    THEN Ret(s, "", <<NaN, s.den>>)
                    ELSE Ret(s, "", <<SumSeq([n \in 1..Len(s.vec) |->
                                                s.vec[n] * hw[n]]), s.den>>)
            IN  summed(TermsSum(s, td, ids, Zeros(Len(s.vec))))
    IN  flushed_at(run(s0))

\* Simulator::apply_qubit_operator
apply_qubit_operator(s0, td, ids) ==
    LET flushed_at(s) ==
            Ret([s EXCEPT !.vec = TermsSum(s, td, ids, Zeros(Len(s.vec)))], "", <<>>)
    IN  flushed_at(run(s0))

\* Simulator::emulate_time_evolution at time = 0: the first Taylor increment
\* is 0 * (H W), so the series stops after one term and W is kept, except
\* that 0 * NaN is NaN.
emulate_time_evolution(s0, tdict, ids, ctrl) ==
    LET td == SelectSeq(tdict, LAMBDA t : t[1] # <<>>)
        flushed_at(s) ==
            LET ctrlmask == get_control_mask(s.map, ctrl)
                updated(update) ==
                    Ret([s EXCEPT !.vec = [n \in 1..Len(s.vec) |->
                            IF And(n - 1, ctrlmask) = ctrlmask /\ IsNaN(update[n])
                            THEN NaN ELSE s.vec[n]]], "", <<>>)
            IN  updated(TermsSum(s, td, ids, Zeros(Len(s.vec))))
    IN  flushed_at(WithKeys(run(s0), ctrl))


---------------------------------------------------------------------------
(* Inputs of the calls *)

IdSeqs == UNION {[1..n -> QubitIds] : n \in 0..MaxIdsLen}

BitSeqs == UNION {[1..n -> {0, 1}] : n \in 0..MaxIdsLen}

\* The ids a gate or a Pauli term may name: the allocated qubits.
Allocated == {id \in DOMAIN map_ : map_[id] < N_}

Distinct(ids) == \A i, j \in DOMAIN ids : i # j => ids[i] # ids[j]

\* Gates of the frontend specification: one target, at most one control.
Gates ==
    {[m |-> m, ids |-> <<t>>, ctrl |-> <<>>] : m \in {"X", "H"}, t \in Allocated}
    \cup {[m |-> "X", ids |-> <<t>>, ctrl |-> <<q>>] : t \in Allocated, q \in Allocated}

ValidGate(g) ==
    /\ Range(g.ids) \subseteq Allocated
    /\ Range(g.ctrl) \subseteq Allocated
    /\ Range(g.ids) \cap Range(g.ctrl) = {}
    /\ Distinct(g.ids)
    /\ Len(g.ids) = Targets(g.m)

RECURSIVE PendingScale(_)
PendingScale(F) == IF F = <<>> THEN 1 ELSE Scale(Head(F).m) * PendingScale(Tail(F))

\* The functions passed to emulate_math: bijections on the values of a
\* register of up to MaxIdsLen qubits.
MathFns ==
    {[kind |-> "add", a |-> 1, N |-> 1],
     [kind |-> "addmod", a |-> 3, N |-> Pow2(MaxIdsLen)]}

BasisVec(n, k) == [vec |-> [i \in 1..n |-> IF i = k THEN 1 ELSE 0], den |-> 1]

UniformVec(n) == [vec |-> [i \in 1..n |-> 1], den |-> n]

\* Wavefunctions passed to set_wavefunction: the last basis state and the
\* uniform superposition of each length up to 2^MaxQubits.
Wavefunctions ==
    UNION {{BasisVec(Pow2(n), Pow2(n)), UniformVec(Pow2(n))} : n \in 0..MaxQubits}

PauliSums ==
    {<< <<<<>>, 1>> >>,
     << << <<<<0, "Z">>>>, 1>> >>,
     << << <<<<0, "X">>>>, 1>>, << <<<<0, "Z">>>>, 1>> >>}

\* M is a bijection between its keys and 0..N-1.
Bijection(map, N) ==
    /\ Cardinality(DOMAIN map) = N
    /\ Range(map) = 0..(N - 1)

---------------------------------------------------------------------------
(* Specification of the frontend *)

\* State after Simulator(seed): no qubit, W = <<1>>, nothing pending.
Init ==
    /\ N_ = 0
    /\ vec_ = <<1>>
    /\ den_ = 1
    /\ map_ = <<>>
    /\ fused_gates_ = EmptyFusion
    /\ op = "idle"
    /\ args = <<>>
    /\ err = ""
    /\ ret = <<>>
    /\ ub = FALSE
    /\ direct = [vec |-> <<1>>, den |-> 1]
    /\ npending = 0
    /\ flushed = {}

\* The fields after a call with result r; a call that ran into undefined
\* behaviour leaves them as they were and sets ub.
Install(r) ==
    LET c == Canon(r.st.vec, r.st.den)
    IN  IF r.ub
        THEN /\ ub' = TRUE
             /\ UNCHANGED <<N_, vec_, den_, map_, fused_gates_>>
        ELSE /\ ub' = FALSE
             /\ N_' = r.st.N
             /\ vec_' = c.vec
             /\ den_' = c.den
             /\ map_' = r.st.map
             /\ fused_gates_' = r.st.F

\* A call is made when the driver holds no result, no call has run into
\* undefined behaviour and M is still a bijection: the runs explored end at
\* the first call that breaks M.
Ready ==
    /\ op = "idle"
    /\ ~ub
    /\ Bijection(map_, N_)

\* The calls that transform W without renormalising it are made while W is
\* normalised or holds a NaN: this bounds the amplitudes explored.
Tame == Normalised(vec_, den_) \/ HasNaN(vec_)

Call(name, a, r) ==
    /\ op' = name
    /\ args' = a
    /\ err' = r.err
    /\ ret' = r.ret
    /\ npending' = Len(fused_gates_)
    /\ flushed' = IF name = "apply_controlled_gate"
                  THEN flushed \cup ({FlushKind(St, a)} \ {"none"})
                  ELSE flushed
    /\ Install(r)

Resync == direct' = [vec |-> vec_', den |-> den_']

\* The driver takes the result of the last call.
Return ==
    /\ op # "idle"
    /\ ~ub
    /\ op' = "idle"
    /\ args' = <<>>
    /\ err' = ""
    /\ ret' = <<>>
    /\ npending' = 0
    /\ UNCHANGED <<N_, vec_, den_, map_, fused_gates_, ub, direct, flushed>>

AllocateQubit ==
    /\ Ready
    /\ \E id \in AllocIds :
            /\ id \in DOMAIN map_ \/ N_ < MaxQubits
            /\ Call("allocate_qubit", [id |-> id], allocate_qubit(St, id))
            /\ direct' = IF id \in DOMAIN map_ THEN direct
                         ELSE [direct EXCEPT !.vec = allocate_qubit(
                                   [St EXCEPT !.vec = direct.vec], id).st.vec]

ApplyControlledGate ==
    /\ Ready
    /\ Tame
    /\ \E g \in Gates :
            /\ ValidGate(g)
            /\ Len(fused_gates_) < MaxPending
            /\ den_ * PendingScale(fused_gates_) * Scale(g.m) <= MaxDen
            /\ Call("apply_controlled_gate", g, Ret(apply_controlled_gate(St, g), "", <<>>))
            /\ LET w == ApplyGate(direct.vec, direct.den, map_, g)
               IN  direct' = Canon(w.vec, w.den)

Run ==
    /\ Ready
    /\ Call("run", <<>>, Ret(run(St), "", <<>>))
    /\ UNCHANGED direct

DeallocateQubit ==
    /\ Ready
    /\ \E id \in QubitIds :
            /\ Call("deallocate_qubit", [id |-> id], deallocate_qubit(St, id))
            /\ Resync

IsClassical ==
    /\ Ready
    /\ \E id \in QubitIds :
            /\ Call("is_classical", [id |-> id], is_classical(St, id))
            /\ Resync

GetClassicalValue ==
    /\ Ready
    /\ \E id \in QubitIds :
            /\ Call("get_classical_value", [id |-> id], get_classical_value(St, id))
            /\ Resync

CollapseVector ==
    /\ Ready
    /\ Tame
    /\ \E id \in QubitIds, value \in {0, 1}, shrink \in BOOLEAN :
            /\ Call("collapse_vector", [id |-> id, value |-> value, shrink |-> shrink],
                    collapse_vector(St, id, value, shrink))
            /\ Resync

MeasureQubits ==
    /\ Ready
    /\ \E ids \in IdSeqs :
            \E k \in 0..(2 * run(St).den - 1) :
                /\ Call("measure_qubits", [ids |-> ids, k |-> k, den |-> run(St).den],
                        measure_qubits(St, ids, k))
                /\ Resync

EmulateMath ==
    /\ Ready
    /\ Tame
    /\ \E f \in MathFns, reg \in {r \in IdSeqs : r # <<>> /\ Distinct(r)},
           ctrl \in {c \in IdSeqs : Len(c) <= 1} :
            /\ Range(ctrl) \cap Range(reg) = {}
            /\ Call("emulate_math", [f |-> f, quregs |-> <<reg>>, ctrl |-> ctrl],
                    emulate_math(St, f, <<reg>>, ctrl))
            /\ Resync

PauliIds == {<<q>> : q \in Allocated}

GetExpectationValue ==
    /\ Ready
    /\ \E td \in PauliSums, ids \in PauliIds :
            /\ Call("get_expectation_value", [td |-> td, ids |-> ids],
                    get_expectation_value(St, td, ids))
            /\ Resync

ApplyQubitOperator ==
    /\ Ready
    /\ Tame
    /\ \E td \in PauliSums, ids \in PauliIds :
            /\ \A n \in 1..Len(run(St).vec) :
                  Abs(apply_qubit_operator(St, td, ids).st.vec[n]) <= MaxAmp
                    \/ IsNaN(apply_qubit_operator(St, td, ids).st.vec[n])
            /\ Call("apply_qubit_operator", [td |-> td, ids |-> ids],
                    apply_qubit_operator(St, td, ids))
            /\ Resync

EmulateTimeEvolution ==
    /\ Ready
    /\ \E td \in PauliSums, ids \in PauliIds, ctrl \in {c \in IdSeqs : Len(c) <= 1} :
            /\ Call("emulate_time_evolution", [td |-> td, time |-> 0, ids |-> ids, ctrl |-> ctrl],
                    emulate_time_evolution(St, td, ids, ctrl))
            /\ Resync

GetProbability ==
    /\ Ready
    /\ \E ids \in IdSeqs :
            \E bits \in [1..Len(ids) -> {0, 1}] :
                /\ Call("get_probability", [bits |-> bits, ids |-> ids],
                        get_probability(St, bits, ids))
                /\ Resync

GetAmplitude ==
    /\ Ready
    /\ \E ids \in IdSeqs :
            \E bits \in [1..Len(ids) -> {0, 1}] :
                /\ Call("get_amplitude", [bits |-> bits, ids |-> ids],
                        get_amplitude(St, bits, ids))
                /\ Resync

SetWavefunction ==
    /\ Ready
    /\ \E psi \in Wavefunctions, ordering \in IdSeqs :
            /\ Call("set_wavefunction", [psi |-> psi, ordering |-> ordering],
                    set_wavefunction(St, psi, ordering))
            /\ Resync

CollapseWavefunction ==
    /\ Ready
    /\ \E ids \in IdSeqs, values \in BitSeqs :
            /\ Len(values) \in {Len(ids), Len(ids) - 1}
            /\ Call("collapse_wavefunction", [ids |-> ids, values |-> values],
                    collapse_wavefunction(St, ids, values))
            /\ Resync

Cheat ==
    /\ Ready
    /\ Call("cheat", <<>>, cheat(St))
    /\ Resync

Next ==
    \/ AllocateQubit
    \/ ApplyControlledGate
    \/ Run
    \/ DeallocateQubit
    \/ IsClassical
    \/ GetClassicalValue
    \/ CollapseVector
    \/ MeasureQubits
    \/ EmulateMath
    \/ GetExpectationValue
    \/ ApplyQubitOperator
    \/ EmulateTimeEvolution
    \/ GetProbability
    \/ GetAmplitude
    \/ SetWavefunction
    \/ CollapseWavefunction
    \/ Cheat
    \/ Return

Spec == Init /\ [][Next]_vars


---------------------------------------------------------------------------
(* Circuits that exercise the fusion buffer: FusionQubits qubits are        *)
(* allocated in order, then permutation gates on one, two and three        *)
(* targets are submitted and run is called, in any order.                  *)

FusionGates ==
    {[m |-> "X", ids |-> <<0>>, ctrl |-> <<>>],
     [m |-> "X", ids |-> <<3>>, ctrl |-> <<>>],
     [m |-> "X", ids |-> <<1>>, ctrl |-> <<0>>],
     [m |-> "SWAP", ids |-> <<1, 2>>, ctrl |-> <<>>],
     [m |-> "ROT3", ids |-> <<0, 1, 2>>, ctrl |-> <<>>],
     [m |-> "ROT3", ids |-> <<3, 4, 5>>, ctrl |-> <<0>>]}

FusionAllocate ==
    /\ N_ < FusionQubits
    /\ Call("allocate_qubit", [id |-> N_], allocate_qubit(St, N_))
    /\ direct' = [direct EXCEPT !.vec = allocate_qubit(
                      [St EXCEPT !.vec = direct.vec], N_).st.vec]

FusionGate ==
    /\ N_ >= FusionQubits
    /\ Len(fused_gates_) < MaxFused
    /\ \E g \in FusionGates :
            /\ ValidGate(g)
            /\ Call("apply_controlled_gate", g, Ret(apply_controlled_gate(St, g), "", <<>>))
            /\ LET w == ApplyGate(direct.vec, direct.den, map_, g)
               IN  direct' = Canon(w.vec, w.den)

FusionRun ==
    /\ N_ >= FusionQubits
    /\ Call("run", <<>>, Ret(run(St), "", <<>>))
    /\ UNCHANGED direct

NextFusion ==
    \/ FusionAllocate
    \/ FusionGate
    \/ FusionRun

SpecFusion == Init /\ [][NextFusion]_vars


---------------------------------------------------------------------------
(* Circuits with a gate of min targets: after the FusionQubits allocations, *)
(* gates on one, three and four targets are submitted and run is called.   *)

WideGates ==
    {[m |-> "X", ids |-> <<5>>, ctrl |-> <<>>],
     [m |-> "ROT3", ids |-> <<0, 1, 2>>, ctrl |-> <<>>],
     [m |-> "ROT4", ids |-> <<2, 3, 4, 5>>, ctrl |-> <<>>]}

WideGate ==
    /\ N_ >= FusionQubits
    /\ Len(fused_gates_) < MaxFused
    /\ \E g \in WideGates :
            /\ ValidGate(g)
            /\ Call("apply_controlled_gate", g, Ret(apply_controlled_gate(St, g), "", <<>>))
            /\ LET w == ApplyGate(direct.vec, direct.den, map_, g)
               IN  direct' = Canon(w.vec, w.den)

NextWide ==
    \/ FusionAllocate
    \/ WideGate
    \/ FusionRun

SpecWide == Init /\ [][NextWide]_vars


---------------------------------------------------------------------------
(* Register arithmetic: MathQubits qubits are allocated in order, W and M   *)
(* are set by set_wavefunction, and emulate_math is called on W as set,    *)
(* with one or two registers and at most one control.                      *)

\* The lambdas of the three emulate_math wrappers, with constants that are
\* and that are not bijections on the values of a register.
MathFnsWide ==
    {[kind |-> "add", a |-> 1, N |-> 1]}
    \cup {[kind |-> "addmod", a |-> 3, N |-> Pow2(n)] : n \in 1..MathQubits}
    \cup {[kind |-> "mulmod", a |-> a, N |-> Pow2(MathQubits)] : a \in {2, 3}}

\* Amplitudes 1, 2, ..., n over the square root of the sum of their squares.
RampVec(n) ==
    [vec |-> [i \in 1..n |-> i], den |-> SumSeq([i \in 1..n |-> i * i])]

\* The basis states of value 2 and of every bit 1, and the ramp.
MathWavefunctions ==
    {BasisVec(Pow2(MathQubits), 3),
     BasisVec(Pow2(MathQubits), Pow2(MathQubits)),
     RampVec(Pow2(MathQubits))}

MathIds == 0..(MathQubits - 1)

\* The orderings passed to set_wavefunction: the rotations of 0, 1, ...
MathOrderings ==
    {[i \in 1..MathQubits |-> (i - 1 + k) % MathQubits] : k \in 0..(MathQubits - 1)}

\* Lists of distinct ids, of length lo to hi.
MathSeqs(lo, hi) ==
    {r \in UNION {[1..n -> MathIds] : n \in lo..hi} : Distinct(r)}

\* One register, or two registers without a common qubit.
MathQuregs ==
    {<<r>> : r \in MathSeqs(1, MathQubits)}
    \cup {q \in {<<r1, r2>> : r1 \in MathSeqs(1, 1), r2 \in MathSeqs(1, 2)} :
              Range(q[1]) \cap Range(q[2]) = {}}

MathAllocate ==
    /\ N_ < MathQubits
    /\ Call("allocate_qubit", [id |-> N_], allocate_qubit(St, N_))
    /\ Resync

MathPrepare ==
    /\ N_ = MathQubits
    /\ \E psi \in MathWavefunctions, ordering \in MathOrderings :
            /\ Call("set_wavefunction", [psi |-> psi, ordering |-> ordering],
                    set_wavefunction(St, psi, ordering))
            /\ Resync

MathEmulate ==
    /\ N_ = MathQubits
    /\ op = "set_wavefunction"
    /\ \E f \in MathFnsWide, quregs \in MathQuregs, ctrl \in MathSeqs(0, 1) :
            /\ \A r \in DOMAIN quregs : Range(ctrl) \cap Range(quregs[r]) = {}
            /\ Call("emulate_math", [f |-> f, quregs |-> quregs, ctrl |-> ctrl],
                    emulate_math(St, f, quregs, ctrl))
            /\ Resync

NextMath ==
    \/ MathAllocate
    \/ MathPrepare
    \/ MathEmulate

SpecMath == Init /\ [][NextMath]_vars


---------------------------------------------------------------------------
(* Properties *)

W == [vec |-> vec_, den |-> den_]

\* The frontend operations other than apply_controlled_gate, run and
\* collapse_vector.
DrainingOps ==
    {"allocate_qubit", "deallocate_qubit", "is_classical", "get_classical_value",
     "measure_qubits", "collapse_wavefunction", "get_probability", "get_amplitude",
     "set_wavefunction", "emulate_math", "get_expectation_value",
     "apply_qubit_operator", "emulate_time_evolution", "cheat"}

\* The caller errors and the operations that raise them.
CallerErrors ==
    {"AllocationConflict", "UnknownQubit", "ShapeMismatch", "InvalidOrdering",
     "IncompleteAmplitudeQuery"}

CallerErrorOps ==
    {"allocate_qubit", "deallocate_qubit", "get_probability",
     "collapse_wavefunction", "set_wavefunction", "get_amplitude"}

\* The operations that take qubit ids, and the ids a call passes.
IdOps ==
    {"is_classical", "get_classical_value", "collapse_vector", "measure_qubits",
     "deallocate_qubit", "get_probability", "collapse_wavefunction", "emulate_math"}

ArgIds(o, a) ==
    CASE o \in {"is_classical", "get_classical_value", "collapse_vector",
                "deallocate_qubit"} -> {a.id}
      [] o \in {"measure_qubits", "get_probability", "collapse_wavefunction"} ->
             Range(a.ids)
      [] o = "emulate_math" ->
             Range(a.ctrl) \cup UNION {Range(a.quregs[r]) : r \in DOMAIN a.quregs}
      [] OTHER -> {}

\* ids holds every element of S exactly once.
IsPermutation(ids, S) == Distinct(ids) /\ Range(ids) = S

\* The index whose bit map[ids[i]] is bits[i], every other bit 0.
IndexOf(map, bits, ids) ==
    SumSeq([i \in DOMAIN ids |-> bits[i] * Pow2(map[ids[i]])])

\* Sum over the bit patterns of S of the numerator get_probability returns.
RECURSIVE ProbabilitySumOver(_, _, _)
ProbabilitySumOver(s, ids, S) ==
    IF S = {} THEN 0
    ELSE LET bits == CHOOSE y \in S : TRUE
         IN  get_probability(s, bits, ids).ret[1] + ProbabilitySumOver(s, ids, S \ {bits})

ProbabilitySum(s, ids) == ProbabilitySumOver(s, ids, [1..Len(ids) -> {0, 1}])

\* C1: when run returns after any sequence of submitted gates, W is the
\* wavefunction obtained by applying every gate directly, one at a time, in
\* submission order.
C1_RunEqualsDirect == op = "run" => W = direct

\* C1 witness: run returns after gates that changed W were submitted and
\* both kinds of intermediate flush were triggered.
C1_Witness ==
    /\ op = "run"
    /\ npending > 0
    /\ flushed = {"fused", "alone"}
    /\ W = direct
    /\ vec_[1] = 0

\* C2 as stated: every operation other than apply_controlled_gate returns
\* with the fusion buffer empty.
C2_AllDrain == (op \in DrainingOps /\ ~ub) => fused_gates_ = EmptyFusion

\* C2 amended: every operation other than apply_controlled_gate and
\* allocate_qubit returns with the fusion buffer empty; allocate_qubit
\* leaves the pending gates as they were.
C2_DrainExceptAllocate ==
    [][(op = "idle" /\ ~ub')
         => /\ op' \in DrainingOps \ {"allocate_qubit"} => fused_gates_' = EmptyFusion
            /\ op' = "allocate_qubit" => fused_gates_' = fused_gates_]_vars

\* C2 witness: measure_qubits was called with a gate pending and returned
\* with the buffer empty.
C2_Witness ==
    /\ op = "measure_qubits"
    /\ npending > 0
    /\ fused_gates_ = EmptyFusion
    /\ ~ub

\* C3: between operations the length of W is 2^N.
C3_Length == ~ub => Len(vec_) = Pow2(N_)

\* C3 witness: collapse_vector with shrink has halved a two-qubit vector.
C3_Witness ==
    /\ op = "collapse_vector"
    /\ args.shrink
    /\ ~ub
    /\ N_ = 1
    /\ Len(vec_) = 2

\* C4 as stated: after an operation that returns without error, M is a
\* bijection between its keys and 0..N-1.
C4_Bijection == (op # "idle" /\ err = "" /\ ~ub) => Bijection(map_, N_)

\* C5 as stated: an operation that fails with a caller error leaves W, M, N
\* and F as they were before the call.
C5_Unchanged ==
    [][(op = "idle" /\ op' \in CallerErrorOps /\ err' \in CallerErrors)
         => UNCHANGED <<vec_, den_, map_, N_, fused_gates_>>]_vars

\* C5 amended: an operation that fails with a caller error leaves M and N
\* as they were; allocate_qubit also leaves W and F; the others have flushed
\* before validating, so F is empty and W has absorbed the pending gates.
C5_FlushedThenFailed ==
    [][(op = "idle" /\ op' \in CallerErrorOps /\ err' \in CallerErrors)
         => /\ map_' = map_
            /\ N_' = N_
            /\ IF op' = "allocate_qubit"
               THEN UNCHANGED <<vec_, den_, fused_gates_>>
               ELSE /\ fused_gates_' = EmptyFusion
                    /\ vec_' = run(St).vec
                    /\ den_' = run(St).den]_vars

\* C5 witness: get_probability failed on an unknown id with a gate pending.
C5_Witness ==
    /\ op = "get_probability"
    /\ err = "UnknownQubit"
    /\ npending > 0
    /\ fused_gates_ = EmptyFusion

\* C6 as stated: an operation given an id that is not in M fails with
\* UnknownQubit and does not add the id to M.
C6_UnknownIdFails ==
    [][(/\ op = "idle"
        /\ ~ub'
        /\ op' \in IdOps
        /\ ~(ArgIds(op', args') \subseteq DOMAIN map_))
         => (err' = "UnknownQubit" /\ map_' = map_)]_vars

\* C7: deallocate_qubit on an allocated qubit that, once the pending gates
\* are flushed, has amplitude above tolerance on both halves fails with
\* NonClassicalDeallocation and leaves M, N and the length of W unchanged.
C7_NonClassical ==
    [][(/\ op = "idle"
        /\ op' = "deallocate_qubit"
        /\ args'.id \in DOMAIN map_
        /\ \E i \in Half(run(St).vec, map_[args'.id], 0) : AboveTol(run(St).vec[i + 1])
        /\ \E i \in Half(run(St).vec, map_[args'.id], 1) : AboveTol(run(St).vec[i + 1]))
         => /\ err' = "NonClassicalDeallocation"
            /\ map_' = map_
            /\ N_' = N_
            /\ Len(vec_') = Len(vec_)]_vars

\* C7 witness: deallocate_qubit failed on a qubit whose Hadamard was still
\* pending when it was called.
C7_Witness ==
    /\ op = "deallocate_qubit"
    /\ err = "NonClassicalDeallocation"
    /\ npending > 0
    /\ args.id \in DOMAIN map_
    /\ den_ = 2

\* C8 as stated: get_amplitude fails with IncompleteAmplitudeQuery unless
\* ids is a permutation of the allocated ids, and then returns W[index] with
\* bit M[ids_i] of index equal to bits_i.
C8_PermutationOnly ==
    (op = "get_amplitude" /\ ~ub)
      => IF IsPermutation(args.ids, DOMAIN map_)
         THEN /\ err = ""
              /\ ret = <<vec_[IndexOf(map_, args.bits, args.ids) + 1], den_>>
         ELSE err = "IncompleteAmplitudeQuery"

\* C9 as stated: set_wavefunction fails with InvalidOrdering when the size is
\* wrong or the ordering is not exactly the allocated ids, each once; when
\* it succeeds M maps ordering_i to bit i and W is psi.
C9_ExactOrdering ==
    (op = "set_wavefunction" /\ ~ub)
      => IF \/ Len(args.psi.vec) # Pow2(Len(args.ordering))
            \/ ~IsPermutation(args.ordering, DOMAIN map_)
         THEN err = "InvalidOrdering"
         ELSE /\ err = ""
              /\ \A i \in DOMAIN args.ordering : map_[args.ordering[i]] = i - 1
              /\ W = Canon(args.psi.vec, args.psi.den)

\* C10 as stated: for any list of allocated ids, the probabilities of all
\* bit patterns sum to the squared norm of W.
C10_SumAnyIds ==
    (op = "get_probability" /\ err = "" /\ ~HasNaN(vec_))
      => ProbabilitySum(St, args.ids) = Norm2(vec_, Indices(vec_))

\* C10 amended: for any list of ids of M whose positions are pairwise
\* different (distinct allocated ids), and W free of NaN, the probabilities
\* of all bit patterns sum to the squared norm of W.
C10_SumDistinctIds ==
    (/\ op = "get_probability"
     /\ err = ""
     /\ ~HasNaN(vec_)
     /\ Distinct([i \in DOMAIN args.ids |-> map_[args.ids[i]]]))
      => ProbabilitySum(St, args.ids) = Norm2(vec_, Indices(vec_))

\* C10 witness: get_probability returned a probability strictly between 0
\* and 1 for two distinct qubits in reversed order.
C10_Witness ==
    /\ op = "get_probability"
    /\ err = ""
    /\ args.ids = <<1, 0>>
    /\ ~HasNaN(vec_)
    /\ ret[1] > 0
    /\ ret[1] < ret[2]

\* The smallest index whose cumulative probability reaches the draw
\* k / (2 d), for amplitudes v over sqrt(d).
SmallestPick(v, k) ==
    CHOOSE p \in Indices(v) :
        /\ 2 * Norm2(v, 0..p) >= k
        /\ \A q \in 0..(p - 1) : 2 * Norm2(v, 0..q) < k

\* C11 as stated: measure_qubits on a normalised W and allocated ids, for
\* every draw in [0,1), the draw 0 included, reports for each id bit M[id] of
\* the smallest index whose cumulative probability is at least the draw.
C11_PickSmallest ==
    [][(/\ op = "idle"
        /\ op' = "measure_qubits"
        /\ ~ub'
        /\ Range(args'.ids) \subseteq Allocated
        /\ Normalised(run(St).vec, run(St).den))
         => ret' = [i \in DOMAIN args'.ids |->
                       Bit(SmallestPick(run(St).vec, args'.k), map_[args'.ids[i]])]]_vars

\* num_qubits() of the pending composite and of the tentative composite
\* after inserting gate g.
Held == FusionNumQubits(fused_gates_)

Tentative(g) == FusionNumQubits(FusionInsert(fused_gates_, g))

\* C12 as stated: when the tentative composite is outside [min, max],
\* apply_controlled_gate flushes F and inserts the gate alone exactly when
\* the tentative composite exceeds max or the insertion adds more target
\* qubits than F held; otherwise F becomes the tentative composite and W is
\* untouched.
C12_FlushWhenAddsMore ==
    [][(/\ op' = "apply_controlled_gate"
        /\ ~(Tentative(args') >= fusion_qubits_min_
             /\ Tentative(args') <= fusion_qubits_max_))
         => IF \/ Tentative(args') > fusion_qubits_max_
               \/ Tentative(args') - Held > Held
            THEN /\ fused_gates_' = FusionInsert(EmptyFusion, args')
                 /\ vec_' = run(St).vec
                 /\ den_' = run(St).den
            ELSE /\ fused_gates_' = FusionInsert(fused_gates_, args')
                 /\ UNCHANGED <<vec_, den_>>]_vars

\* C12 amended: when the tentative composite is outside [min, max],
\* apply_controlled_gate flushes F and inserts the gate alone exactly when
\* the tentative composite exceeds max or the unsigned difference
\* F'.num_qubits() - |ids| exceeds F.num_qubits(); otherwise, and so for
\* every gate that keeps the composite below min, F becomes the tentative
\* composite and W is untouched, however few qubits F held.
C12_FlushWhenOverMax ==
    [][(/\ op' = "apply_controlled_gate"
        /\ ~(Tentative(args') >= fusion_qubits_min_
             /\ Tentative(args') <= fusion_qubits_max_))
         => IF \/ Tentative(args') > fusion_qubits_max_
               \/ Tentative(args') < Len(args'.ids)
               \/ Tentative(args') - Len(args'.ids) > Held
            THEN /\ fused_gates_' = FusionInsert(EmptyFusion, args')
                 /\ vec_' = run(St).vec
                 /\ den_' = run(St).den
            ELSE /\ fused_gates_' = FusionInsert(fused_gates_, args')
                 /\ UNCHANGED <<vec_, den_>>]_vars

\* C12 witness: a two-target gate was submitted while one qubit was pending
\* and was committed without a flush: the composite holds three qubits and
\* W still has the amplitude of before the pending gate.
C12_Witness ==
    /\ op = "apply_controlled_gate"
    /\ npending = 1
    /\ Len(args.ids) = 2
    /\ Len(fused_gates_) = 2
    /\ FusionNumQubits(fused_gates_) = 3
    /\ FusionNumQubits(SubSeq(fused_gates_, 1, 1)) = 1
    /\ vec_[1] = 1

\* The little-endian value of the register with ids reg at basis index i.
Decoded(i, reg) == SumSeq([b \in DOMAIN reg |-> Bit(i, map_[reg[b]]) * Pow2(b - 1)])

\* f maps the values of an n-qubit register one-to-one onto themselves.
BijectionOnRegister(f, n) ==
    {ApplyF(f, x) : x \in 0..(Pow2(n) - 1)} = 0..(Pow2(n) - 1)

\* The positions of the qubits of a list of registers.
RegisterBits(quregs) ==
    UNION {{map_[quregs[r][b]] : b \in DOMAIN quregs[r]} : r \in DOMAIN quregs}

\* j differs from i only in register bits, and its registers hold f of the
\* values those of i hold.
Image(i, j, f, quregs) ==
    /\ \A p \in 0..(N_ - 1) : p \notin RegisterBits(quregs) => Bit(j, p) = Bit(i, p)
    /\ \A r \in DOMAIN quregs : Decoded(j, quregs[r]) = ApplyF(f, Decoded(i, quregs[r]))

\* C13: emulate_math with f a bijection on the values of every register and
\* registers disjoint from the controls moves the amplitude of every index
\* whose control bits are all 1 to the index that differs only in the
\* register bits, which encode f of the decoded values, and keeps every other
\* amplitude in place; adding 3 modulo 8 to a three-qubit register holding 2
\* gives 5.
C13_Permutes ==
    [][(/\ op' = "emulate_math"
        /\ ~ub'
        /\ \A r \in DOMAIN args'.quregs :
                /\ BijectionOnRegister(args'.f, Len(args'.quregs[r]))
                /\ Range(args'.quregs[r]) \cap Range(args'.ctrl) = {})
         => /\ den_' = den_
            /\ map_' = map_
            /\ \A i \in Indices(vec_) :
                  IF \A c \in Range(args'.ctrl) : Bit(i, map_[c]) = 1
                  THEN \E j \in Indices(vec_) :
                          /\ Image(i, j, args'.f, args'.quregs)
                          /\ vec_'[j + 1] = vec_[i + 1]
                  ELSE vec_'[i + 1] = vec_[i + 1]
            /\ (/\ args' = [f |-> [kind |-> "addmod", a |-> 3, N |-> 8],
                            quregs |-> << <<0, 1, 2>> >>, ctrl |-> <<>>]
                /\ map_ = [q \in 0..2 |-> q]
                /\ W = BasisVec(8, 3))
                 => [vec |-> vec_', den |-> den_'] = BasisVec(8, 6)]_vars

\* C13 witness: 3 was added modulo 8 to the register of qubits 0, 1, 2 at
\* positions 0, 1, 2 and W is the basis state of value 5, which only the
\* basis state of value 2 gives.
C13_Witness ==
    /\ op = "emulate_math"
    /\ args = [f |-> [kind |-> "addmod", a |-> 3, N |-> 8],
               quregs |-> << <<0, 1, 2>> >>, ctrl |-> <<>>]
    /\ map_ = [q \in 0..2 |-> q]
    /\ W = BasisVec(8, 6)

\* The index of n + 1 bits obtained by inserting bit v at position p into
\* the n-bit index k.
WithBitInserted(k, p, v, n) ==
    CHOOSE i \in 0..(Pow2(n + 1) - 1) :
        /\ Bit(i, p) = v
        /\ \A q \in 0..(n - 1) : Bit(i, IF q < p THEN q ELSE q + 1) = Bit(k, q)

\* The qubit at position p has amplitude above tolerance exactly on the
\* half of v whose bit p is b.
ClassicalAt(v, p, b) ==
    /\ \E i \in Half(v, p, b) : AboveTol(v[i + 1])
    /\ \A i \in Half(v, p, 1 - b) : ~AboveTol(v[i + 1])

\* The fields after the step.
StNext ==
    [N |-> N_', vec |-> vec_', den |-> den_', map |-> map_', F |-> fused_gates_']

\* C14: deallocate_qubit(id) on an allocated qubit that, once the pending
\* gates are flushed, is classical with value b at position p succeeds; W
\* halves and each new W[k] is the old amplitude at the index obtained by
\* inserting bit b at position p into k; id leaves M, the positions above p
\* decrease by one and those below are unchanged; deallocate_qubit(id)
\* called again fails with UnknownQubit.
C14_Compacts ==
    [][\A b \in {0, 1} :
         (/\ op = "idle"
          /\ op' = "deallocate_qubit"
          /\ args'.id \in DOMAIN map_
          /\ ClassicalAt(run(St).vec, map_[args'.id], b))
           => /\ err' = ""
              /\ ~ub'
              /\ N_' = N_ - 1
              /\ 2 * Len(vec_') = Len(vec_)
              /\ [vec |-> vec_', den |-> den_'] =
                     Canon([k \in 1..Pow2(N_ - 1) |->
                               run(St).vec[WithBitInserted(k - 1, map_[args'.id],
                                                           b, N_ - 1) + 1]],
                           run(St).den)
              /\ map_' = [x \in DOMAIN map_ \ {args'.id} |->
                             IF map_[x] > map_[args'.id] THEN map_[x] - 1
                             ELSE map_[x]]
              /\ deallocate_qubit(StNext, args'.id).err = "UnknownQubit"]_vars

\* C14 witness: qubit 0 at position 0 was deallocated while an X on qubit 1
\* was pending; qubit 1 moved from position 1 to position 0 and W is the
\* basis state of value 1.
C14_Witness ==
    /\ op = "deallocate_qubit"
    /\ err = ""
    /\ ~ub
    /\ args.id = 0
    /\ npending = 1
    /\ map_ = (1 :> 0)
    /\ vec_ = <<0, 1>>

\* C15 as stated: after measure_qubits on a normalised W and allocated ids,
\* for every draw, every measured qubit is classical, get_classical_value
\* returns the bit reported for it and deallocate_qubit of it succeeds.
C15_MeasuredIsClassical ==
    [][(/\ op = "idle"
        /\ op' = "measure_qubits"
        /\ ~ub'
        /\ Range(args'.ids) \subseteq Allocated
        /\ Normalised(run(St).vec, run(St).den))
         => \A i \in DOMAIN args'.ids :
                /\ is_classical(StNext, args'.ids[i]).ret = <<1>>
                /\ get_classical_value(StNext, args'.ids[i]).ret = <<ret'[i]>>
                /\ deallocate_qubit(StNext, args'.ids[i]).err = ""]_vars

\* C16: when apply_controlled_gate returns for a gate of at most max
\* targets, the pending composite holds at most max distinct target qubits,
\* and the composite it flushed (the tentative one when the buffer is left
\* empty, the previous one when the gate is left alone) held at most max.
C16_AtMostMax ==
    [][(/\ op' = "apply_controlled_gate"
        /\ Len(args'.ids) <= fusion_qubits_max_)
         => /\ FusionNumQubits(fused_gates_') <= fusion_qubits_max_
            /\ fused_gates_' = EmptyFusion => Tentative(args') <= fusion_qubits_max_
            /\ fused_gates_' = FusionInsert(EmptyFusion, args')
                 => Held <= fusion_qubits_max_]_vars

\* C16 witness: a gate was inserted alone after a forced flush of pending
\* gates and the composite is left holding min or more qubits, unflushed.
C16_Witness ==
    /\ op = "apply_controlled_gate"
    /\ npending > 0
    /\ fused_gates_ = FusionInsert(EmptyFusion, args)
    /\ FusionNumQubits(fused_gates_) >= fusion_qubits_min_

===========================================================================
